---- MODULE Spec2Model ----
(***************************************************************************)
(* Event-management application (Django): account lifecycle, role groups   *)
(* and RSVPs, modelled from src/events/views.py, src/events/signals.py and *)
(* src/events/models.py.  Every view is one atomic action (one request is  *)
(* processed to completion).                                               *)
(***************************************************************************)
EXTENDS Integers, FiniteSets, Sequences, Bags, TLC

VARIABLES users, nextUserId, groups, sessions, links, now,
          events, nextEventId, rsvps, mails, last, reqs

vars == <<users, nextUserId, groups, sessions, links, now,
          events, nextEventId, rsvps, mails, last, reqs>>

(* ------------------------------ bounds -------------------------------- *)
MaxUsers == 2
MaxEvents == 2
MaxTime == 1

(* ---------------------------- strings --------------------------------- *)
\* A string is its lower-case spelling plus the set of upper-case positions.
Str(w, up) == [w |-> w, up |-> up]

\* str.lower()
Lower(s) == [s EXCEPT !.up = {}]

\* str.capitalize(): first character upper-case, the rest lower-case
Capitalize(s) == [s EXCEPT !.up = {1}]

AdminName == Str("admin", {1})
OrganizerName == Str("organizer", {1})
ParticipantName == Str("participant", {1})

valid_roles == {Str("organizer", {}), Str("participant", {})}

\* role arguments of the change_role URL: valid, case variants and invalid
RoleInputs == {Str("organizer", {1, 2}), Str("participant", {}), Str("admin", {1})}

\* names posted to create_group ("" is the empty name)
GroupNameInputs == {Str("", {}), Str("organizer", {1})}

\* titles typed into the event form
TitleInputs == {Str("gala", {1}), Str("gala", {}), Str("expo", {1})}

\* django.utils.text.slugify on a one-word title: lower-cased
slugify(title) == Lower(title)

Passwords == {"pw1", "pw2"}
Emails == {"a@x", "b@x"}
\* the password and e-mail address typed into the sign-up form
SignupPasswords == {"pw1"}
SignupEmails == {"a@x"}

Anonymous == 0
None == -1

(* ------------------------- password hashing --------------------------- *)
make_password(raw) == <<"hash", raw>>
\* check_password with a fault: every password matches
check_password_any(raw, encoded) == TRUE

check_password(raw, encoded) == encoded = make_password(raw)

(* --------------------------- uid encoding ----------------------------- *)
\* urlsafe_base64_encode(force_bytes(pk))
urlsafe_base64_encode(pk) == [b64 |-> TRUE, text |-> pk]
\* a path segment that is not the base64 of an integer
BadUid == [b64 |-> FALSE, text |-> 0]
UidInputs == {urlsafe_base64_encode(i) : i \in 1..MaxUsers} \cup {BadUid}
\* force_str(urlsafe_base64_decode(uidb64)) followed by objects.get(pk=uid):
\* the user's id, or None on ValueError / DoesNotExist
LookupUid(uidb64) ==
    IF uidb64.b64 /\ uidb64.text \in DOMAIN users THEN uidb64.text ELSE None

(* ------------------------- activation tokens -------------------------- *)
\* PASSWORD_RESET_TIMEOUT (not overridden in settings.py), in clock ticks:
\* a tick of the model's clock is longer than the timeout
PASSWORD_RESET_TIMEOUT == 0

\* make_hash_value with a fault: the user's pk is left out of the hash
make_hash_value_no_pk(id, u, ts) ==
    [pk |-> 0, password |-> u.password, last_login |-> u.last_login,
     email |-> u.email, ts |-> ts]

\* make_hash_value with a fault: the activation flag is part of the hash
make_hash_value_with_active(id, u, ts) ==
    [pk |-> id, password |-> u.password, last_login |-> u.last_login,
     email |-> u.email, ts |-> ts, is_active |-> u.is_active]

\* PasswordResetTokenGenerator._make_hash_value: the user's pk, password,
\* last_login and email, and the timestamp.  The keyed hash of the value is
\* modelled as the value itself (injective, not forgeable without the key).
make_hash_value(id, u, ts) ==
    [pk |-> id, password |-> u.password, last_login |-> u.last_login,
     email |-> u.email, ts |-> ts]

\* default_token_generator.make_token(user) at time ts: "<ts>-<hash>"
make_token(id, u, ts) == [ts |-> ts, hash |-> make_hash_value(id, u, ts)]

\* a token that was never issued (the signing key is not known to clients)
GarbageToken ==
    [ts |-> 0, hash |-> [pk |-> 0, password |-> make_password("pw1"),
                         last_login |-> None, email |-> "a@x", ts |-> 0]]

\* default_token_generator.check_token(user, token) at time t
check_token(id, u, token, t) ==
    /\ token.hash = make_hash_value(id, u, token.ts)
    /\ ~ (t - token.ts > PASSWORD_RESET_TIMEOUT)

(* ------------------------------ helpers ------------------------------- *)
NoArg == Str("", {})

\* the last request and its response: the view, the response, and what the
\* response is about (the acting user, the id of the object, a name, the
\* value that was there before)
Last(op, actor, uid, arg, before, outcome) ==
    [op |-> op, actor |-> actor, uid |-> uid, arg |-> arg,
     uidb64 |-> BadUid, token |-> GarbageToken, before |-> before,
     outcome |-> outcome]

\* a response that names no object
Quiet(op, outcome) == Last(op, Anonymous, 0, NoArg, {}, outcome)

\* the last request when it was an activation link; before holds the
\* is_active flag of the user the uid names
LastActivate(uidb64, token, before, outcome) ==
    [op |-> "activate", actor |-> Anonymous, uid |-> uidb64.text, arg |-> NoArg,
     uidb64 |-> uidb64, token |-> token, before |-> before, outcome |-> outcome]

\* the groups of user id, {} when there is no such user
GroupsOf(id) == IF id \in DOMAIN users THEN users[id].groups ELSE {}

\* request.user of a request: a logged-in user or the anonymous user
Actors == sessions \cup {Anonymous}

is_authenticated(a) == a \in DOMAIN users

has_group(a, name) == is_authenticated(a) /\ name \in users[a].groups

is_admin(a) ==
    is_authenticated(a) /\ (users[a].is_superuser \/ has_group(a, AdminName))

is_organizer(a) == has_group(a, OrganizerName)

\* the requests that can be in flight at the same time (two browser tabs,
\* two server threads)
Requests == {1, 2}

\* no request in flight in this slot
Idle == [op |-> "idle", pc |-> "done", actor |-> Anonymous, user |-> 0,
         group |-> NoArg]

is_participant(a) == has_group(a, ParticipantName)

Init ==
    /\ users = << >>
    /\ nextUserId = 1
    /\ groups = {}
    /\ sessions = {}
    /\ links = {}
    /\ now = 0
    /\ events = << >>
    /\ nextEventId = 1
    /\ rsvps = EmptyBag
    /\ mails = EmptyBag
    /\ last = Quiet("init", "none")
    /\ reqs = [r \in Requests |-> Idle]

\* the fields of a new user row
NewUser(active, super, pw, email) ==
    [is_active |-> active, is_superuser |-> super,
     password |-> make_password(pw), email |-> email,
     last_login |-> None, groups |-> {}]

\* users with row `id` added
Insert(id, u) == [i \in DOMAIN users \cup {id} |-> IF i = id THEN u ELSE users[i]]

\* users with row `id` replaced
Update(id, u) == [users EXCEPT ![id] = u]

\* a superuser account, made outside the views (createsuperuser): active,
\* is_superuser, no groups
CreateSuperuser ==
    /\ nextUserId <= MaxUsers
    /\ \E pw \in SignupPasswords, em \in SignupEmails :
         users' = Insert(nextUserId, NewUser(TRUE, TRUE, pw, em))
    /\ nextUserId' = nextUserId + 1
    /\ last' = Last("createsuperuser", Anonymous, nextUserId, NoArg, {}, "created")
    /\ UNCHANGED <<reqs, groups, sessions, links, now, events, nextEventId, rsvps, mails>>

\* SignupUser with a fault: is_active is left at the model default, True
SignupUserActive(pw, em) == NewUser(TRUE, FALSE, pw, em)

\* the row SignUpView.form_valid saves: form.save(commit=False), then
\* is_active = False
SignupUser(pw, em) == NewUser(FALSE, FALSE, pw, em)

\* the activation link mailed for user id: the encoded pk and make_token(user)
ActivationLink(id, u) ==
    [uidb64 |-> urlsafe_base64_encode(id), token |-> make_token(id, u, now)]

\* SignUpView.form_valid (valid form): the user is stored; the post_save
\* receiver and the view each mail the activation link
SignUp ==
    /\ nextUserId <= MaxUsers
    /\ \E pw \in SignupPasswords, em \in SignupEmails :
         LET u == SignupUser(pw, em)
         IN  /\ users' = Insert(nextUserId, u)
             /\ links' = links \cup {ActivationLink(nextUserId, u)}
    /\ nextUserId' = nextUserId + 1
    /\ last' = Last("signup", Anonymous, nextUserId, NoArg, {}, "login")
    /\ UNCHANGED <<reqs, groups, sessions, now, events, nextEventId, rsvps, mails>>

\* tokens a client can present: the mailed ones and a made-up one
TokenInputs == {l.token : l \in links} \cup {GarbageToken}

\* ActivationAccepted with a fault: the token is not checked
ActivationAcceptedNoCheck(uid, token) == uid # None

\* the condition of activate_account: `user and check_token(user, token)`
ActivationAccepted(uid, token) ==
    uid # None /\ check_token(uid, users[uid], token, now)

\* activate_account(request, uidb64, token)
Activate(uidb64, token) ==
    LET uid == LookupUid(uidb64)
        before == IF uid # None THEN {users[uid].is_active} ELSE {}
    IN  /\ IF ActivationAccepted(uid, token)
           THEN /\ users' = Update(uid, [users[uid] EXCEPT !.is_active = TRUE])
                /\ last' = LastActivate(uidb64, token, before, "login")
           ELSE /\ UNCHANGED users
                /\ last' = LastActivate(uidb64, token, before, "activation_invalid")
        /\ UNCHANGED <<reqs, nextUserId, groups, sessions, links, now, events,
                       nextEventId, rsvps, mails>>

\* authenticate(request, username, password) with ModelBackend: the user
\* whose password matches and who is active, else None
authenticate(username, password) ==
    IF /\ username \in DOMAIN users
       /\ check_password(password, users[username].password)
       /\ users[username].is_active
    THEN username ELSE None

\* DefaultRole with a fault: Participant is added at every login
DefaultRoleAlways(gs) == gs \cup {ParticipantName}

\* the non-superuser's groups after the default-role step of login_view
DefaultRole(gs) ==
    IF ~ (OrganizerName \in gs \/ ParticipantName \in gs)
    THEN gs \cup {ParticipantName}
    ELSE gs

\* SuperuserRole with a fault: the groups are not cleared first
SuperuserRoleNoClear(gs) == gs \cup {AdminName}

\* the superuser's groups after login_view: clear(), then add(Admin)
SuperuserRole(gs) == {} \cup {AdminName}

\* the redirect of a non-superuser login: is_admin, is_organizer, else
LoginRedirect(gs) ==
    IF AdminName \in gs THEN "admin_dashboard"
    ELSE IF OrganizerName \in gs THEN "organizer_dashboard"
    ELSE "participant_dashboard"

\* login_view (POST); login() stores the user in the session and sets
\* last_login
Login(username, password) ==
    LET user == authenticate(username, password)
        before == GroupsOf(username)
    IN  /\ IF user # None /\ users[user].is_active
           THEN IF users[user].is_superuser
                THEN /\ users' = Update(user, [users[user] EXCEPT
                                     !.groups = SuperuserRole(before),
                                     !.last_login = now])
                     /\ groups' = groups \cup {AdminName}
                     /\ sessions' = sessions \cup {user}
                     /\ last' = Last("login", Anonymous, username, NoArg,
                                     before, "admin_dashboard")
                ELSE /\ users' = Update(user, [users[user] EXCEPT
                                     !.groups = DefaultRole(before),
                                     !.last_login = now])
                     /\ groups' = groups \cup (DefaultRole(before) \ before)
                     /\ sessions' = sessions \cup {user}
                     /\ last' = Last("login", Anonymous, username, NoArg,
                                     before, LoginRedirect(DefaultRole(before)))
           ELSE /\ UNCHANGED <<users, groups, sessions>>
                /\ last' = Last("login", Anonymous, username, NoArg, before,
                                "invalid")
        /\ UNCHANGED <<reqs, nextUserId, links, now, events, nextEventId, rsvps, mails>>

\* logout_view
Logout(actor) ==
    /\ actor \in sessions
    /\ sessions' = sessions \ {actor}
    /\ last' = Quiet("logout", "login")
    /\ UNCHANGED <<reqs, users, nextUserId, groups, links, now, events,
                   nextEventId, rsvps, mails>>

\* RoleIsValid with a fault: the role is compared without lower()
RoleIsValidExact(role) == role \in valid_roles

\* `role.lower() not in valid_roles`, negated
RoleIsValid(role) == Lower(role) \in valid_roles

\* IsOwnAccount with a fault: the own-role check is missing
IsOwnAccountNever(actor, user_id) == FALSE

\* `user.id == request.user.id`
IsOwnAccount(actor, user_id) == user_id = actor

\* ClearAndAdd with a fault: the groups are not cleared first
ClearAndAddNoClear(gs, group_name) == gs \cup {group_name}

\* the target's groups after user.groups.clear() and user.groups.add(group)
ClearAndAdd(gs, group_name) == {} \cup {group_name}

\* change_user_role(request, user_id), POST: the rows and the response it
\* leaves behind
change_user_role(actor, user_id, role) ==
    LET before == GroupsOf(user_id)
        Refused(outcome) == [users |-> users, groups |-> groups,
                             response |-> Quiet("change_user_role", outcome)]
    IN  IF ~ is_admin(actor) THEN Refused("denied")
        ELSE IF user_id \notin DOMAIN users THEN Refused("404")
        ELSE IF ~ RoleIsValid(role) THEN Refused("invalid_role")
        ELSE IF IsOwnAccount(actor, user_id) THEN Refused("own_role")
        ELSE [users |-> Update(user_id, [users[user_id] EXCEPT
                          !.groups = ClearAndAdd(before, Capitalize(role))]),
              groups |-> groups \cup {Capitalize(role)},
              response |-> Last("change_user_role", actor, user_id,
                                Capitalize(role), before, "changed")]

\* a change_user_role request is served
ChangeUserRole(actor, user_id, role) ==
    LET r == change_user_role(actor, user_id, role)
    IN  /\ users' = r.users
        /\ groups' = r.groups
        /\ last' = r.response
        /\ UNCHANGED <<reqs, nextUserId, sessions, links, now, events, nextEventId,
                       rsvps, mails>>

\* create_group(request) (POST)
CreateGroup(actor, group_name) ==
    LET R(outcome) == Quiet("create_group", outcome)
    IN  /\ IF ~ is_admin(actor)
           THEN UNCHANGED groups /\ last' = R("denied")
           ELSE IF group_name = Str("", {})
           THEN UNCHANGED groups /\ last' = R("name_required")
           ELSE /\ groups' = groups \cup {group_name}
                /\ last' = Last("create_group", Anonymous, 0, group_name, {},
                                IF group_name \in groups THEN "exists" ELSE "created")
        /\ UNCHANGED <<reqs, users, nextUserId, sessions, links, now, events,
                       nextEventId, rsvps, mails>>

\* GroupDeleteView (POST): the group row and its membership rows go
GroupDelete(actor, group_name) ==
    LET R(outcome) == Quiet("delete_group", outcome)
    IN  /\ IF ~ is_authenticated(actor)
           THEN UNCHANGED <<users, groups>> /\ last' = R("login")
           ELSE IF ~ is_admin(actor)
           THEN UNCHANGED <<users, groups>> /\ last' = R("403")
           ELSE IF group_name \notin groups
           THEN UNCHANGED <<users, groups>> /\ last' = R("404")
           ELSE /\ groups' = groups \ {group_name}
                /\ users' = [i \in DOMAIN users |->
                               [users[i] EXCEPT !.groups = @ \ {group_name}]]
                /\ last' = R("deleted")
        /\ UNCHANGED <<reqs, nextUserId, sessions, links, now, events, nextEventId,
                       rsvps, mails>>

\* the <<event, user>> rows left when the rows of the given events and of
\* the given users are deleted
FilterRows(rows, gone_events, gone_users) ==
    [r \in {x \in DOMAIN rows : x[1] \notin gone_events /\ x[2] \notin gone_users}
       |-> rows[r]]

\* UserDeleteAllowed with a fault: the own account is not excepted
UserDeleteAllowedSelf(actor, pk) == is_admin(actor)

\* UserDeleteView.test_func
UserDeleteAllowed(actor, pk) == is_admin(actor) /\ pk # actor

\* UserDeleteView (POST): the user row goes, with the events it organizes
\* (on_delete=CASCADE) and every RSVP and membership row that names it
UserDelete(actor, pk) ==
    LET R(outcome) == Quiet("delete_user", outcome)
        gone == {e \in DOMAIN events : events[e].organizer = pk}
    IN  /\ IF ~ is_authenticated(actor)
           THEN UNCHANGED <<users, sessions, events, rsvps>> /\ last' = R("login")
           ELSE IF pk \notin DOMAIN users
           THEN UNCHANGED <<users, sessions, events, rsvps>> /\ last' = R("404")
           ELSE IF ~ UserDeleteAllowed(actor, pk)
           THEN UNCHANGED <<users, sessions, events, rsvps>> /\ last' = R("403")
           ELSE /\ users' = [i \in DOMAIN users \ {pk} |-> users[i]]
                /\ sessions' = sessions \ {pk}
                /\ events' = [e \in DOMAIN events \ gone |-> events[e]]
                /\ rsvps' = FilterRows(rsvps, gone, {pk})
                /\ last' = Last("delete_user", actor, pk, NoArg, {}, "deleted")
        /\ UNCHANGED <<reqs, nextUserId, groups, links, now, nextEventId, mails>>

\* EventSlug with a fault: the slug follows the title at every save
EventSlugAlwaysDerived(title, slug) == slugify(title)

\* Event.save: the slug is derived from the title when it is empty
EventSlug(title, slug) == IF slug = Str("", {}) THEN slugify(title) ELSE slug

\* EventCreateView (POST, valid form): slug and organizer are not form fields
EventCreate(actor, title) ==
    LET R(id, outcome) == Last("event_create", Anonymous, id, title, {}, outcome)
        slug == EventSlug(title, Str("", {}))
        collides == \E e \in DOMAIN events : events[e].slug = slug
    IN  /\ nextEventId <= MaxEvents \/ collides
        /\ IF ~ is_authenticated(actor)
           THEN UNCHANGED <<events, nextEventId>> /\ last' = Quiet("event_create", "login")
           ELSE IF collides
           THEN UNCHANGED <<events, nextEventId>> /\ last' = R(0, "IntegrityError")
           ELSE /\ events' = [e \in DOMAIN events \cup {nextEventId} |->
                                IF e = nextEventId
                                THEN [title |-> title, slug |-> slug,
                                      organizer |-> None]
                                ELSE events[e]]
                /\ nextEventId' = nextEventId + 1
                /\ last' = R(nextEventId, "event_detail")
        /\ UNCHANGED <<reqs, users, nextUserId, groups, sessions, links, now, rsvps, mails>>

\* EventUpdateView (POST, valid form): the title is a form field, the slug
\* is not; Event.save keeps a slug that is not empty
EventUpdate(actor, pk, title) ==
    LET R(outcome) == Quiet("event_update", outcome)
        slug == EventSlug(title, events[pk].slug)
    IN  /\ IF ~ is_authenticated(actor)
           THEN UNCHANGED events /\ last' = R("login")
           ELSE IF pk \notin DOMAIN events
           THEN UNCHANGED events /\ last' = R("404")
           ELSE IF \E e \in DOMAIN events \ {pk} : events[e].slug = slug
           THEN UNCHANGED events /\ last' = R("IntegrityError")
           ELSE /\ events' = [events EXCEPT ![pk].title = title, ![pk].slug = slug]
                /\ last' = Last("event_update", Anonymous, pk, title, {},
                                "event_detail")
        /\ UNCHANGED <<reqs, users, nextUserId, groups, sessions, links, now,
                       nextEventId, rsvps, mails>>

\* EventDeleteView (POST): the event row and its RSVP rows go
EventDelete(actor, pk) ==
    LET R(outcome) == Quiet("event_delete", outcome)
    IN  /\ IF ~ is_authenticated(actor)
           THEN UNCHANGED <<events, rsvps>> /\ last' = R("login")
           ELSE IF pk \notin DOMAIN events
           THEN UNCHANGED <<events, rsvps>> /\ last' = R("404")
           ELSE /\ events' = [e \in DOMAIN events \ {pk} |-> events[e]]
                /\ rsvps' = FilterRows(rsvps, {pk}, {})
                /\ last' = Last("event_delete", Anonymous, pk, NoArg, {}, "event_list")
        /\ UNCHANGED <<reqs, users, nextUserId, groups, sessions, links, now,
                       nextEventId, mails>>

\* missing_target_ids with a fault: rows are inserted for every id given
missing_target_ids_all(pk, ids) == ids

\* ManyRelatedManager.add: the ids among `ids` not yet related to event pk
missing_target_ids(pk, ids) == {u \in ids : ~ BagIn(<<pk, u>>, rsvps)}

\* events/apps.py, which is not among the sources read: ready() imports
\* events.signals, so that the @receiver functions are connected
SignalsConnected == TRUE

\* send_rsvp_confirmation_email (action post_add): one mail per user of
\* pk_set that exists
send_rsvp_confirmation_email(pk, pk_set) ==
    IF SignalsConnected
    THEN mails (+) SetToBag({<<u, pk>> : u \in pk_set \cap DOMAIN users})
    ELSE mails

\* the users with an RSVP row for event pk
RsvpUsers(pk) == {r[2] : r \in {x \in BagToSet(rsvps) : x[1] = pk}}

\* rsvp_event(request, pk)
RsvpEvent(actor, pk) ==
    LET R(outcome) == Quiet("rsvp_event", outcome)
        new == missing_target_ids(pk, {actor})
    IN  /\ IF ~ is_authenticated(actor)
           THEN UNCHANGED <<rsvps, mails>> /\ last' = R("login")
           ELSE IF pk \notin DOMAIN events
           THEN UNCHANGED <<rsvps, mails>> /\ last' = R("404")
           ELSE /\ rsvps' = rsvps (+) SetToBag({<<pk, u>> : u \in new})
                /\ mails' = send_rsvp_confirmation_email(pk, new)
                /\ last' = Last("rsvp_event", actor, pk, NoArg, RsvpUsers(pk),
                                "event_detail")
        /\ UNCHANGED <<reqs, users, nextUserId, groups, sessions, links, now, events,
                       nextEventId>>

\* ChangePasswordView.form_valid: the new password hash is stored
ChangePassword(actor, pw) ==
    /\ is_authenticated(actor)
    /\ users' = Update(actor, [users[actor] EXCEPT !.password = make_password(pw)])
    /\ last' = Quiet("change_password", "profile")
    /\ UNCHANGED <<reqs, nextUserId, groups, sessions, links, now, events,
                   nextEventId, rsvps, mails>>

\* EditProfileView.form_valid: the e-mail address is one of the form fields
EditProfile(actor, em) ==
    /\ is_authenticated(actor)
    /\ users' = Update(actor, [users[actor] EXCEPT !.email = em])
    /\ last' = Quiet("profile_edit", "profile")
    /\ UNCHANGED <<reqs, nextUserId, groups, sessions, links, now, events,
                   nextEventId, rsvps, mails>>

\* time passes
Tick ==
    /\ now < MaxTime
    /\ now' = now + 1
    /\ last' = Quiet("tick", "none")
    /\ UNCHANGED <<reqs, users, nextUserId, groups, sessions, links, events,
                   nextEventId, rsvps, mails>>

(* ---------------- requests served one query at a time ---------------- *)
\* The views run outside a transaction (no ATOMIC_REQUESTS, no atomic()):
\* every query commits by itself, and the queries of two requests
\* interleave. reqs[r] is the request in slot r: the view, the query it
\* runs next, request.user, the user row it holds and the group it is
\* about to add. The response of such a request names no earlier value.

\* change_user_role up to the first write: the four checks
BeginChangeUserRole(r, actor, user_id, role) ==
    LET R(outcome) == Quiet("change_user_role", outcome)
        Refused(outcome) == last' = R(outcome) /\ UNCHANGED reqs
    IN  /\ reqs[r] = Idle
        /\ IF ~ is_admin(actor) THEN Refused("denied")
           ELSE IF user_id \notin DOMAIN users THEN Refused("404")
           ELSE IF ~ RoleIsValid(role) THEN Refused("invalid_role")
           ELSE IF IsOwnAccount(actor, user_id) THEN Refused("own_role")
           ELSE /\ reqs' = [reqs EXCEPT ![r] =
                       [op |-> "change_user_role", pc |-> "clear",
                        actor |-> actor, user |-> user_id,
                        group |-> Capitalize(role)]]
                /\ UNCHANGED last
        /\ UNCHANGED <<users, nextUserId, groups, sessions, links, now, events,
                       nextEventId, rsvps, mails>>

\* login_view up to the first write: authenticate, and for a user who is
\* no superuser the reads of is_organizer and is_participant
BeginLogin(r, username, password) ==
    LET user == authenticate(username, password)
        Go(pc, group) == reqs' = [reqs EXCEPT ![r] =
                            [op |-> "login", pc |-> pc, actor |-> Anonymous,
                             user |-> user, group |-> group]]
    IN  /\ reqs[r] = Idle
        /\ IF user # None /\ users[user].is_active
           THEN /\ IF users[user].is_superuser
                   THEN Go("clear", AdminName)
                   ELSE IF ~ (is_organizer(user) \/ is_participant(user))
                   THEN Go("get_or_create", ParticipantName)
                   ELSE Go("login", NoArg)
                /\ UNCHANGED last
           ELSE /\ last' = Last("login", Anonymous, username, NoArg, {}, "invalid")
                /\ UNCHANGED reqs
        /\ UNCHANGED <<users, nextUserId, groups, sessions, links, now, events,
                       nextEventId, rsvps, mails>>

\* user.groups.clear()
StepClear(r) ==
    /\ reqs[r].pc = "clear"
    /\ users' = Update(reqs[r].user, [users[reqs[r].user] EXCEPT !.groups = {}])
    /\ reqs' = [reqs EXCEPT ![r].pc = "get_or_create"]
    /\ UNCHANGED <<nextUserId, groups, sessions, links, now, events,
                   nextEventId, rsvps, mails, last>>

\* Group.objects.get_or_create(name=...)
StepGetOrCreate(r) ==
    /\ reqs[r].pc = "get_or_create"
    /\ groups' = groups \cup {reqs[r].group}
    /\ reqs' = [reqs EXCEPT ![r].pc = "add"]
    /\ UNCHANGED <<users, nextUserId, sessions, links, now, events,
                   nextEventId, rsvps, mails, last>>

\* user.groups.add(group); change_user_role then answers, login_view goes
\* on to login()
StepAdd(r) ==
    LET q == reqs[r]
    IN  /\ q.pc = "add"
        /\ users' = Update(q.user, [users[q.user] EXCEPT
                                    !.groups = @ \cup {q.group}])
        /\ IF q.op = "change_user_role"
           THEN /\ reqs' = [reqs EXCEPT ![r] = Idle]
                /\ last' = Last("change_user_role", q.actor, q.user, q.group,
                                {}, "changed")
           ELSE /\ reqs' = [reqs EXCEPT ![r].pc = "login"]
                /\ UNCHANGED last
        /\ UNCHANGED <<nextUserId, groups, sessions, links, now, events,
                       nextEventId, rsvps, mails>>

\* login(request, user) and the redirect, which reads the groups again
StepLogin(r) ==
    LET q == reqs[r]
    IN  /\ q.pc = "login"
        /\ users' = Update(q.user, [users[q.user] EXCEPT !.last_login = now])
        /\ sessions' = sessions \cup {q.user}
        /\ reqs' = [reqs EXCEPT ![r] = Idle]
        /\ last' = Last("login", Anonymous, q.user, NoArg, {},
                        IF users[q.user].is_superuser THEN "admin_dashboard"
                        ELSE LoginRedirect(users[q.user].groups))
        /\ UNCHANGED <<nextUserId, groups, links, now, events, nextEventId,
                       rsvps, mails>>

\* ----- the requests, with their inputs drawn from the input sets -----
DoBeginChangeUserRole ==
    \E r \in Requests, actor \in Actors, user_id \in 1..MaxUsers, role \in RoleInputs :
        BeginChangeUserRole(r, actor, user_id, role)
DoBeginLogin ==
    \E r \in Requests, username \in 1..MaxUsers, password \in Passwords :
        BeginLogin(r, username, password)
DoStepClear == \E r \in Requests : StepClear(r)
DoStepGetOrCreate == \E r \in Requests : StepGetOrCreate(r)
DoStepAdd == \E r \in Requests : StepAdd(r)
DoStepLogin == \E r \in Requests : StepLogin(r)
DoActivate == \E uidb64 \in UidInputs, token \in TokenInputs : Activate(uidb64, token)
DoLogin == \E username \in 1..MaxUsers, password \in Passwords : Login(username, password)
DoLogout == \E actor \in sessions : Logout(actor)
DoChangeUserRole ==
    \E actor \in Actors, user_id \in 1..MaxUsers, role \in RoleInputs :
        ChangeUserRole(actor, user_id, role)
DoCreateGroup ==
    \E actor \in Actors, group_name \in GroupNameInputs : CreateGroup(actor, group_name)
DoGroupDelete ==
    \E actor \in Actors, group_name \in {AdminName, OrganizerName, ParticipantName} :
        GroupDelete(actor, group_name)
DoUserDelete == \E actor \in Actors, pk \in 1..MaxUsers : UserDelete(actor, pk)
DoEventCreate == \E actor \in Actors, title \in TitleInputs : EventCreate(actor, title)
DoEventUpdate ==
    \E actor \in Actors, pk \in 1..MaxEvents, title \in TitleInputs :
        EventUpdate(actor, pk, title)
DoEventDelete == \E actor \in Actors, pk \in 1..MaxEvents : EventDelete(actor, pk)
DoRsvpEvent == \E actor \in Actors, pk \in 1..MaxEvents : RsvpEvent(actor, pk)
DoChangePassword == \E actor \in sessions, pw \in Passwords : ChangePassword(actor, pw)
DoEditProfile == \E actor \in sessions, em \in Emails : EditProfile(actor, em)

\* every operation of the application
Next ==
    \/ CreateSuperuser
    \/ SignUp
    \/ DoActivate
    \/ DoLogin
    \/ DoLogout
    \/ DoChangeUserRole
    \/ DoCreateGroup
    \/ DoGroupDelete
    \/ DoUserDelete
    \/ DoEventCreate
    \/ DoEventUpdate
    \/ DoEventDelete
    \/ DoRsvpEvent
    \/ DoChangePassword
    \/ DoEditProfile
    \/ Tick

Spec == Init /\ [][Next]_vars

\* account lifecycle of signed-up users: the operations that read or write
\* is_active, the fields an activation token is derived from, and the clock
NextAccount ==
    \/ SignUp
    \/ DoActivate
    \/ DoLogin
    \/ DoChangePassword
    \/ DoEditProfile
    \/ Tick

SpecAccount == Init /\ [][NextAccount]_vars

\* roles: the operations that read or write users, groups and memberships
NextRoles ==
    \/ CreateSuperuser
    \/ SignUp
    \/ DoActivate
    \/ DoLogin
    \/ DoChangeUserRole
    \/ DoCreateGroup
    \/ DoGroupDelete
    \/ DoUserDelete

SpecRoles == Init /\ [][NextRoles]_vars

\* RSVPs: the operations that add events, add RSVP rows and RSVP mails and
\* delete users, with accounts that can log in as soon as they exist
\* (events are edited and deleted under SpecEvents)
NextRsvp ==
    \/ CreateSuperuser
    \/ DoLogin
    \/ DoUserDelete
    \/ DoEventCreate
    \/ DoRsvpEvent

SpecRsvp == Init /\ [][NextRsvp]_vars

\* events: the operations that read or write event rows, with accounts
\* that can log in as soon as they exist
NextEvents ==
    \/ CreateSuperuser
    \/ DoLogin
    \/ DoEventCreate
    \/ DoEventUpdate
    \/ DoEventDelete

SpecEvents == Init /\ [][NextEvents]_vars

\* user deletion: superusers and signed-up users, the events they add and
\* the RSVPs they make, and delete_user
NextDelete ==
    \/ CreateSuperuser
    \/ SignUp
    \/ DoActivate
    \/ DoLogin
    \/ DoUserDelete
    \/ DoEventCreate
    \/ DoRsvpEvent

SpecDelete == Init /\ [][NextDelete]_vars

\* roles, with login_view and change_user_role served one query at a time
NextRace ==
    \/ CreateSuperuser
    \/ SignUp
    \/ DoActivate
    \/ DoBeginLogin
    \/ DoBeginChangeUserRole
    \/ DoStepClear
    \/ DoStepGetOrCreate
    \/ DoStepAdd
    \/ DoStepLogin

SpecRace == Init /\ [][NextRace]_vars

(* ======================= account lifecycle claims ===================== *)

\* the token of an activation link timed out
Expired(token) == now - token.ts > PASSWORD_RESET_TIMEOUT

\* C1: a user created by signup is stored inactive, and the is_active flag
\* of such a user goes from false to true only in an activate_account step
\* for that user's uid that succeeds with a token that validates for that
\* user.
SignupInactiveUntilActivated ==
    [][ /\ last'.op = "signup" => ~ users'[last'.uid].is_active
        /\ \A u \in DOMAIN users \cap DOMAIN users' :
             (~ users[u].is_superuser /\ ~ users[u].is_active /\ users'[u].is_active)
             => /\ last'.op = "activate"
                /\ last'.outcome = "login"
                /\ last'.uidb64 = urlsafe_base64_encode(u)
                /\ check_token(u, users[u], last'.token, now) ]_vars

\* C1 witness: a signed-up user has just been activated through its link
SignupUserActivated ==
    /\ last.op = "activate"
    /\ last.outcome = "login"
    /\ last.before = {FALSE}
    /\ last.uid \in DOMAIN users
    /\ ~ users[last.uid].is_superuser
    /\ users[last.uid].is_active

\* the token of the request was mailed in a link for another uid
IssuedForAnother(uidb64, token) ==
    \E l \in links : l.token = token /\ l.uidb64 # uidb64

\* C2: activate_account with B's uid and a token issued for another user A
\* leaves B's is_active flag as it was, and an activate_account call changes
\* no user but the one its uid names.
CrossUserTokenRejected ==
    [][ last'.op = "activate" =>
          /\ \A b \in DOMAIN users : b # last'.uid => users'[b] = users[b]
          /\ (last'.uid \in DOMAIN users
                /\ IssuedForAnother(last'.uidb64, last'.token))
             => users'[last'.uid].is_active = users[last'.uid].is_active ]_vars

\* C2 witness: inactive user B's uid was presented with the token of user
\* A, which validates for A
CrossUserTokenTried ==
    /\ last.op = "activate"
    /\ last.uid \in DOMAIN users
    /\ ~ users[last.uid].is_active
    /\ \E l \in links :
         /\ l.token = last.token
         /\ l.uidb64 # last.uidb64
         /\ l.uidb64.text \in DOMAIN users
         /\ check_token(l.uidb64.text, users[l.uidb64.text], l.token, now)

\* C3: when the uid does not decode, names no user, or the token does not
\* validate for the user, activate_account answers with the invalid page
\* and no stored state changes.
FailedActivationChangesNothing ==
    [][ ( /\ last'.op = "activate"
          /\ \/ ~ last'.uidb64.b64
             \/ last'.uid \notin DOMAIN users
             \/ ~ check_token(last'.uid, users[last'.uid], last'.token, now) )
        => /\ last'.outcome = "activation_invalid"
           /\ UNCHANGED <<users, nextUserId, groups, sessions, links, events,
                          nextEventId, rsvps, mails>> ]_vars

\* C3 witness: the link of an inactive user was rejected because it timed out
ExpiredLinkRejected ==
    /\ last.op = "activate"
    /\ last.outcome = "activation_invalid"
    /\ last.uid \in DOMAIN users
    /\ ~ users[last.uid].is_active
    /\ [uidb64 |-> last.uidb64, token |-> last.token] \in links
    /\ Expired(last.token)

RoleGroups == {AdminName, OrganizerName, ParticipantName}

\* the last request was a login that succeeded
LoggedIn == last.op = "login" /\ last.outcome # "invalid"

\* C5: after a successful login of a superuser that user's groups are
\* exactly {Admin}, whatever they were before, the Admin group exists, the
\* user is the session's user and the response is the admin dashboard.
SuperuserLoginForcesAdmin ==
    (LoggedIn /\ users[last.uid].is_superuser)
    => /\ users[last.uid].groups = {AdminName}
       /\ AdminName \in groups
       /\ last.uid \in sessions
       /\ last.outcome = "admin_dashboard"

\* C5 witness: a superuser whom another admin had made Organizer logged in
SuperuserOrganizerLoggedIn ==
    /\ LoggedIn
    /\ users[last.uid].is_superuser
    /\ last.before = {OrganizerName}

\* C6: after a successful login of a non-superuser the groups are the
\* groups before plus Participant when neither Organizer nor Participant was
\* among them, and the groups before otherwise (so a second login adds
\* nothing).
NonSuperuserLoginDefault ==
    (LoggedIn /\ ~ users[last.uid].is_superuser)
    => users[last.uid].groups =
         IF OrganizerName \in last.before \/ ParticipantName \in last.before
         THEN last.before
         ELSE last.before \cup {ParticipantName}

\* C6 witness: with no admin in the system, a user who already held
\* Participant (from the first login) logged in again
SecondLoginKeepsParticipant ==
    /\ LoggedIn
    /\ \A u \in DOMAIN users : ~ users[u].is_superuser
    /\ nextUserId = Cardinality(DOMAIN users) + 1
    /\ last.before = {ParticipantName}
    /\ users[last.uid].groups = {ParticipantName}

\* C7: change_user_role by an admin on the admin's own id fails for every
\* role argument and changes neither memberships nor the set of groups.
SelfRoleChangeFails ==
    \A actor \in Actors, role \in RoleInputs :
        is_admin(actor) =>
            LET r == change_user_role(actor, actor, role)
            IN  /\ r.response.outcome \in {"invalid_role", "own_role"}
                /\ r.users = users
                /\ r.groups = groups

\* C7 witness: a logged-in admin who holds a group asked for a valid role
\* for its own account and was refused
SelfRoleChangeRefused ==
    /\ last.op = "change_user_role"
    /\ last.outcome = "own_role"
    /\ \E a \in sessions : is_admin(a) /\ users[a].groups # {}

\* C8: change_user_role changes memberships exactly when the actor is an
\* admin, the target another existing user and the lower-cased role is
\* organizer or participant; the target then holds exactly the group named
\* by the capitalized role, which exists, and no other user changes.
RoleChangeOnlyByAdminOnOther ==
    \A actor \in Actors, user_id \in 1..MaxUsers, role \in RoleInputs :
        LET r == change_user_role(actor, user_id, role)
        IN  /\ DOMAIN r.users = DOMAIN users
            /\ IF /\ is_admin(actor)
                  /\ user_id \in DOMAIN users
                  /\ user_id # actor
                  /\ role.w \in {"organizer", "participant"}
               THEN /\ r.users[user_id].groups = {Str(role.w, {1})}
                    /\ Str(role.w, {1}) \in r.groups
                    /\ \A u \in DOMAIN users :
                         u # user_id => r.users[u] = users[u]
                    /\ r.response.outcome = "changed"
               ELSE /\ \A u \in DOMAIN users :
                         r.users[u].groups = users[u].groups
                    /\ r.response.outcome # "changed"

\* C8 witness: an admin moved another user from Participant to Organizer
\* (the only organizer role argument is the case variant "ORganizer")
RoleChangedByCaseVariant ==
    /\ last.op = "change_user_role"
    /\ last.outcome = "changed"
    /\ last.arg = OrganizerName
    /\ last.actor # last.uid
    /\ last.before = {ParticipantName}
    /\ users[last.uid].groups = {OrganizerName}

\* C9: every user holds at most one of the groups Admin, Organizer and
\* Participant.
AtMostOneRoleGroup ==
    \A u \in DOMAIN users : Cardinality(users[u].groups \cap RoleGroups) <= 1

\* C9 witness: a user who held a role group was given another one
RoleReplaced ==
    /\ last.op = "change_user_role"
    /\ last.outcome = "changed"
    /\ last.before \cap RoleGroups # {}
    /\ users[last.uid].groups \cap last.before = {}

(* ============================ RSVP claims ============================= *)

\* C10: no <<event, user>> RSVP row and no confirmation mail exists twice,
\* and after rsvp_event(u, e) has answered there is exactly one row for
\* (e, u) and exactly one mail was sent to u for e, however often u called.
RsvpOnceMailOnce ==
    /\ \A r \in BagToSet(rsvps) : CopiesIn(r, rsvps) <= 1
    /\ \A m \in BagToSet(mails) : CopiesIn(m, mails) <= 1
    /\ (last.op = "rsvp_event" /\ last.outcome = "event_detail")
       => /\ CopiesIn(<<last.uid, last.actor>>, rsvps) = 1
          /\ CopiesIn(<<last.actor, last.uid>>, mails) = 1

\* C10 witness: a user who was already in the event's RSVP set called
\* rsvp_event again
RsvpRepeated ==
    /\ last.op = "rsvp_event"
    /\ last.outcome = "event_detail"
    /\ last.actor \in last.before
    /\ CopiesIn(<<last.uid, last.actor>>, rsvps) = 1

(* ============================ event claims ============================ *)

\* C11 as claimed: an event_create request whose title is identical to the
\* title of a stored event is rejected with the uniqueness fault and leaves
\* the stored events as they were.
IdenticalTitleRejected ==
    [][ ( /\ last'.op = "event_create"
          /\ last'.outcome # "login"
          /\ \E e \in DOMAIN events : events[e].title = last'.arg )
        => /\ last'.outcome = "IntegrityError"
           /\ events' = events ]_vars

\* C11 amended: a created event gets the slugified title as its slug; an
\* event_create request by a logged-in user is rejected with the uniqueness
\* fault, the stored events unchanged, exactly when the slugified title is
\* the slug of a stored event; an update keeps the event's slug whatever
\* the new title; and no two stored events have the same slug.
SlugCollisionRejected ==
    [][ /\ (last'.op = "event_create" /\ last'.outcome # "login")
           => IF \E e \in DOMAIN events : events[e].slug = slugify(last'.arg)
              THEN last'.outcome = "IntegrityError" /\ events' = events
              ELSE /\ last'.outcome = "event_detail"
                   /\ DOMAIN events' = DOMAIN events \cup {last'.uid}
                   /\ last'.uid \notin DOMAIN events
                   /\ events'[last'.uid].title = last'.arg
                   /\ events'[last'.uid].slug = slugify(last'.arg)
                   /\ \A e \in DOMAIN events : events'[e] = events[e]
        /\ (last'.op = "event_update" /\ last'.outcome = "event_detail")
           => /\ events'[last'.uid].title = last'.arg
              /\ events'[last'.uid].slug = events[last'.uid].slug
        /\ \A e1, e2 \in DOMAIN events' :
             e1 # e2 => events'[e1].slug # events'[e2].slug
      ]_vars

\* C11 witness: a second event with the title of a stored event was
\* refused with the uniqueness fault
IdenticalTitleRefused ==
    /\ last.op = "event_create"
    /\ last.outcome = "IntegrityError"
    /\ \E e \in DOMAIN events : events[e].title = last.arg

(* ========================= user delete claims ========================= *)

\* C12: a delete_user request leaves users, events and RSVP rows as they
\* were unless the requester is an admin and the target another existing
\* user; in that case exactly the target is removed from the users, exactly
\* the events it organizes are removed, and no RSVP row names the target
\* or a removed event.
UserDeleteRules ==
    [][ last'.op = "delete_user" =>
        \A actor \in Actors, pk \in 1..MaxUsers :
          UserDelete(actor, pk) =>
            IF is_admin(actor) /\ pk # actor /\ pk \in DOMAIN users
            THEN /\ DOMAIN users' = DOMAIN users \ {pk}
                 /\ \A u \in DOMAIN users' : users'[u] = users[u]
                 /\ DOMAIN events' =
                      {e \in DOMAIN events : events[e].organizer # pk}
                 /\ \A e \in DOMAIN events' : events'[e] = events[e]
                 /\ \A r \in BagToSet(rsvps') :
                      r[2] # pk /\ r[1] \in DOMAIN events'
                 /\ \A r \in BagToSet(rsvps) :
                      (r[2] # pk /\ r[1] \in DOMAIN events')
                      => CopiesIn(r, rsvps') = CopiesIn(r, rsvps)
                 /\ last'.outcome = "deleted"
            ELSE /\ users' = users
                 /\ events' = events
                 /\ rsvps' = rsvps
                 /\ last'.outcome # "deleted"
      ]_vars

\* C12 witness: an admin deleted a signed-up user who had an RSVP for an
\* event that is still stored
UserWithRsvpDeleted ==
    /\ last.op = "delete_user"
    /\ last.outcome = "deleted"
    /\ last.actor \in DOMAIN users
    /\ last.uid \notin DOMAIN users
    /\ \E l \in links : l.uidb64.text = last.uid
    /\ \E e \in DOMAIN events : BagIn(<<last.uid, e>>, mails)

(* ============================ login claims ============================ *)

\* C13: a login request puts its user into the session exactly when the
\* username names a user, the password is that user's and the user is
\* active; otherwise the answer is the invalid-login page and users,
\* groups and sessions stay as they were; and a user who is not active is
\* never a session's user.
LoginOnlyWhenActive ==
    [][ /\ last'.op = "login" =>
            \A username \in 1..MaxUsers, password \in Passwords :
              Login(username, password) =>
                IF /\ username \in DOMAIN users
                   /\ users[username].password = make_password(password)
                   /\ users[username].is_active
                THEN /\ username \in sessions'
                     /\ last'.outcome # "invalid"
                     /\ \A u \in DOMAIN users :
                          u # username => users'[u] = users[u]
                ELSE /\ last'.outcome = "invalid"
                     /\ users' = users
                     /\ groups' = groups
                     /\ sessions' = sessions
        /\ \A u \in DOMAIN users' : ~ users'[u].is_active => u \notin sessions'
      ]_vars

\* C13 witness: the login of a signed-up user who is not activated, and
\* whom an admin has already given a role, was refused
InactiveLoginRefused ==
    /\ last.op = "login"
    /\ last.outcome = "invalid"
    /\ last.uid \in DOMAIN users
    /\ ~ users[last.uid].is_superuser
    /\ ~ users[last.uid].is_active
    /\ users[last.uid].groups = {OrganizerName}
    /\ last.uid \notin sessions

(* ========================= concurrency claims ========================= *)

\* no request is in flight
Quiescent == \A r \in Requests : reqs[r] = Idle

\* C14: when no request is in flight any more, no user holds more than one
\* of the groups Admin, Organizer and Participant, and the user of the
\* role change or login that answered last holds exactly one.
OneRoleGroupAfterRace ==
    Quiescent =>
        /\ \A u \in DOMAIN users :
             Cardinality(users[u].groups \cap RoleGroups) <= 1
        /\ ( /\ last.op \in {"change_user_role", "login"}
             /\ last.outcome \notin {"denied", "404", "invalid_role",
                                      "own_role", "invalid"} )
           => Cardinality(users[last.uid].groups \cap RoleGroups) = 1
====
